---- MODULE Spec2Model ----
(***************************************************************************)
(* Model of wsgi.py, the Flask front-end of docker-weasyprint.             *)
(*                                                                         *)
(* One worker serves one request at a time.  A request is routed, passes   *)
(* through the authenticate decorator when its view is decorated, and is   *)
(* then handled by the view.  The rendering library is modelled by what    *)
(* the application observes of it: a text lays out to a number of pages    *)
(* (0 pages stands for a text on which the library raises), and a PDF is   *)
(* the sequence of the pages written into it.                              *)
(***************************************************************************)
EXTENDS Integers, Sequences, FiniteSets, TLC

\* ---------------------------------------------------------------- bounds
MaxPages  == 2   \* most pages one HTML text lays out to
MaxDocs   == 2   \* longest JSON array posted to /multiple
MaxSheets == 2   \* longest "css" list posted to /pdf
MaxFiles  == 3   \* most entries in a posted zip archive

\* ------------------------------------------------------------ sentinels
Absent  == "<absent>"    \* a header or query argument the request lacks
Unset   == "<None>"      \* os.environ.get() of a variable that is not set
NoKey   == -1            \* a JSON object without the "html" key
NoBase  == "<string>"    \* HTML(string=...) has no file behind it

\* ------------------------------------------------ texts, JSON, archives
Keys        == {"k1", "k2"}
HtmlIds     == 0..MaxPages
CssStrings  == {"c1", "c2"}
Filenames   == {"a.pdf", "b.pdf"}
ContentTypes == {"application/json", "application/json; charset=utf-8", "text/html"}

SeqsUpTo(S, n) == UNION {[1..k -> S] : k \in 0..n}

\* json.loads raises JSONDecodeError on a text whose json field is NoJson
NoJson == [type |-> "none", html |-> NoKey, hascss |-> FALSE, css |-> <<>>, items |-> <<>>]

JsonObjects ==
  {[type |-> "object", html |-> h, hascss |-> TRUE, css |-> c, items |-> <<>>] :
      h \in {NoKey} \cup HtmlIds, c \in SeqsUpTo(CssStrings, MaxSheets)}
  \cup
  {[type |-> "object", html |-> h, hascss |-> FALSE, css |-> <<>>, items |-> <<>>] :
      h \in {NoKey} \cup HtmlIds}

JsonArrays ==
  {[type |-> "array", html |-> NoKey, hascss |-> FALSE, css |-> <<>>, items |-> s] :
      s \in SeqsUpTo(HtmlIds, MaxDocs)}

JsonNumber == [type |-> "number", html |-> NoKey, hascss |-> FALSE, css |-> <<>>, items |-> <<>>]

JsonValues == JsonObjects \cup JsonArrays \cup {JsonNumber}

\* A text is known by what the two libraries make of it: the number of
\* pages it lays out to as HTML, and the value json.loads reads from it.
Markup(n)   == [pages |-> n, json |-> NoJson]
JsonText(v) == [pages |-> 1, json |-> v]
Texts       == {Markup(n) : n \in HtmlIds} \cup {JsonText(v) : v \in JsonValues}

\* Entries an archive may hold, each a path of names, each name a sequence
\* of tokens; "d.html/" is a directory entry.
Files == {"a.html", "sub/b.html", ".hid/c.html", "d.html/", "s.css", "sub/t.css", "img.png"}

Components(f) ==
  CASE f = "a.html"      -> << <<"a", ".", "html">> >>
    [] f = "sub/b.html"  -> << <<"sub">>, <<"b", ".", "html">> >>
    [] f = ".hid/c.html" -> << <<".", "hid">>, <<"c", ".", "html">> >>
    [] f = "d.html/"     -> << <<"d", ".", "html">> >>
    [] f = "s.css"       -> << <<"s", ".", "css">> >>
    [] f = "sub/t.css"   -> << <<"sub">>, <<"t", ".", "css">> >>
    [] f = "img.png"     -> << <<"img", ".", "png">> >>

IsDir(f) == f = "d.html/"

Content(f) ==
  CASE f = "a.html"      -> Markup(1)
    [] f = "sub/b.html"  -> Markup(MaxPages)
    [] f = ".hid/c.html" -> Markup(1)
    [] OTHER             -> Markup(1)

Trees == {t \in SUBSET Files : Cardinality(t) <= MaxFiles}

NoText == Markup(0)

Bodies ==
  {[kind |-> "text", text |-> t, tree |-> {}, crc_ok |-> TRUE] : t \in Texts}
  \cup {[kind |-> "binary", text |-> NoText, tree |-> {}, crc_ok |-> TRUE]}
  \cup {[kind |-> "zip", text |-> NoText, tree |-> t, crc_ok |-> b] : t \in Trees, b \in BOOLEAN}

Routes == {"/health", "/", "/pdf", "/multiple", "/zip2pdf"}

\* The requests the URL map matches.  An archive is only posted to
\* /zip2pdf; the other bodies are posted anywhere.
Requests ==
  {r \in [route : Routes, api_key : Keys \cup {Absent}, ctype : ContentTypes \cup {Absent},
          filename : Filenames \cup {Absent}, body : Bodies] :
      r.body.kind = "zip" => r.route = "/zip2pdf"}

NoRequest ==
  [route |-> "", api_key |-> Absent, ctype |-> Absent, filename |-> Absent,
   body |-> [kind |-> "binary", text |-> NoText, tree |-> {}, crc_ok |-> TRUE]]

\* ------------------------------------------------------------ rendering
NoPdf == [pages |-> <<>>]

Source(text, base) == [text |-> text, base |-> base]
HTMLString(n)      == Source(Markup(n), NoBase)
HTMLText(t)        == Source(t, NoBase)
HTMLFile(f)        == Source(Content(f), f)

RenderFails(src) == src.text.pages = 0 \/ (src.base # NoBase /\ IsDir(src.base))

Render(src, css) ==
  [i \in 1..src.text.pages |->
     [src |-> src.text, base |-> src.base, no |-> i, css |-> css]]

\* AllPages keeping only the first document's pages
AllPagesFirstOnly(documents) ==
  IF documents = <<>> THEN <<>> ELSE Head(documents)

RECURSIVE AllPages(_)
AllPages(documents) ==
  IF documents = <<>> THEN <<>>
  ELSE Head(documents) \o AllPages(Tail(documents))


\* glob.glob(os.path.join(temp_dir, '**/*.<ext>'), recursive=True): a name
\* starting with a dot is matched neither by '**' nor by '*.<ext>', and a
\* directory whose name matches is returned like a file.
Hidden(name) == name[1] = "."

EndsWith(name, ext) ==
  /\ Len(name) >= 2
  /\ name[Len(name) - 1] = "."
  /\ name[Len(name)] = ext

Glob(tree, ext) ==
  {f \in tree :
     LET c == Components(f)
     IN  /\ \A i \in 1..Len(c) : ~Hidden(c[i])
         /\ EndsWith(c[Len(c)], ext)}

\* The orders in which the directory scan may return a set of paths.
Listings(S) ==
  {s \in [1..Cardinality(S) -> S] : \A i, j \in 1..Cardinality(S) : i # j => s[i] # s[j]}

\* ------------------------------------------------------------- requests
ArgsGet(r) == IF r.filename = Absent THEN "unnamed.pdf" ELSE r.filename

ContentDisposition(name) == <<"inline;filename=", name>>

\* IsJsonRequest comparing the media type only, parameters dropped
IsJsonRequestLoose(ctype) ==
  ctype \in {"application/json", "application/json; charset=utf-8"}

IsJsonRequest(ctype) == ctype = "application/json"

\* HandleException where a KeyError is a BadRequestKeyError
HandleExceptionBadRequestKey(exc) ==
  CASE exc = "abort(401)" -> 401
    [] exc = "abort(400)" -> 400
    [] exc = "KeyError"   -> 400
    [] OTHER              -> 500

\* Flask answers an HTTPException with its code and anything else with 500.
HandleException(exc) ==
  CASE exc = "abort(401)" -> 401
    [] exc = "abort(400)" -> 400
    [] OTHER              -> 500

NoResponse ==
  [status |-> 0, ctype |-> "", disp |-> <<>>, text |-> "", pdf |-> NoPdf, error |-> ""]

TextResponse(text) ==
  [status |-> 200, ctype |-> "text/html", disp |-> <<>>, text |-> text, pdf |-> NoPdf, error |-> ""]

PdfResponse(pdf, name) ==
  [status |-> 200, ctype |-> "application/pdf", disp |-> ContentDisposition(name),
   text |-> "", pdf |-> pdf, error |-> ""]

ErrorResponse(exc) ==
  [status |-> HandleException(exc), ctype |-> "text/html", disp |-> <<>>, text |-> "",
   pdf |-> NoPdf, error |-> exc]

\* Guarded with every view decorated, and with none
GuardedAll(route) == TRUE

GuardedNone(route) == FALSE

\* The views the source decorates with @authenticate.
Guarded(route) == route \in {"/pdf", "/multiple", "/zip2pdf"}

\* AuthPasses rejecting unless the header is present and equal
AuthPassesStrict(key, env) == key # Absent /\ env = key

\* checkauth's condition (line 21).
AuthPasses(key, env) == key = Absent \/ env = key

ViewOf(route) ==
  CASE route = "/health"   -> "index"
    [] route = "/"         -> "home"
    [] route = "/pdf"      -> "generate"
    [] route = "/multiple" -> "multiple"
    [] route = "/zip2pdf"  -> "zip2pdf"

\* What a view body leaves behind: the exception it raised ("" for none),
\* the PDF it wrote and the steps it took, in order.
Raised(exc, ev)   == [exc |-> exc, pdf |-> NoPdf, ev |-> ev]
Returned(pdf, ev) == [exc |-> "",  pdf |-> pdf,   ev |-> ev]

\* generate, lines 81-88
GenerateBody(r) ==
  IF r.ctype = Absent THEN Raised("KeyError", <<>>)
  ELSE IF IsJsonRequest(r.ctype) THEN
    IF r.body.kind # "text" THEN Raised("UnicodeDecodeError", <<"decode">>)
    ELSE LET data == r.body.text.json IN
      IF data.type = "none" THEN Raised("JSONDecodeError", <<"decode", "json.loads">>)
      ELSE IF data.type # "object" THEN Raised("TypeError", <<"decode", "json.loads">>)
      ELSE IF data.html = NoKey THEN Raised("KeyError", <<"decode", "json.loads">>)
      ELSE IF ~data.hascss THEN Raised("KeyError", <<"decode", "json.loads">>)
      ELSE IF RenderFails(HTMLString(data.html))
           THEN Raised("RenderingError", <<"decode", "json.loads", "render">>)
      ELSE Returned([pages |-> Render(HTMLString(data.html), data.css)],
                    <<"decode", "json.loads", "render">>)
  ELSE
    IF r.body.kind # "text" THEN Raised("UnicodeDecodeError", <<"decode">>)
    ELSE IF RenderFails(HTMLText(r.body.text))
         THEN Raised("RenderingError", <<"decode", "render">>)
    ELSE Returned([pages |-> Render(HTMLText(r.body.text), <<>>)], <<"decode", "render">>)

\* Iterating the value json.loads returned (line 102): an array yields its
\* items, an object yields its keys, which are short texts of one page.
ObjectKeys(data) ==
  (IF data.html # NoKey THEN <<1>> ELSE <<>>) \o (IF data.hascss THEN <<1>> ELSE <<>>)

Documents(srcs) == [i \in 1..Len(srcs) |-> Render(srcs[i], <<>>)]

AnyRenderFails(srcs) == \E i \in 1..Len(srcs) : RenderFails(srcs[i])

\* documents[0].copy([page for doc in documents for page in doc.pages]).write_pdf()
CopyAndWrite(srcs, ev) ==
  IF AnyRenderFails(srcs) THEN Raised("RenderingError", ev \o <<"render">>)
  ELSE IF Len(srcs) = 0 THEN Raised("IndexError", ev \o <<"render">>)
  ELSE Returned([pages |-> AllPages(Documents(srcs))], ev \o <<"render">>)

\* multiple, lines 101-103
MultipleBody(r) ==
  IF r.body.kind # "text" THEN Raised("UnicodeDecodeError", <<"decode">>)
  ELSE LET data == r.body.text.json IN
    IF data.type = "none" THEN Raised("JSONDecodeError", <<"decode", "json.loads">>)
    ELSE IF data.type = "number" THEN Raised("TypeError", <<"decode", "json.loads">>)
    ELSE LET htmls == IF data.type = "array" THEN data.items ELSE ObjectKeys(data)
         IN  CopyAndWrite([i \in 1..Len(htmls) |-> HTMLString(htmls[i])],
                          <<"decode", "json.loads">>)

\* zip2pdf, lines 121-130, on the two glob results
Zip2pdfBody(htmls, csss) ==
  IF Len(htmls) = 0 THEN Raised("abort(400)", <<"glob", "log.warning">>)
  ELSE IF Len(htmls) = 1 THEN
    IF RenderFails(HTMLFile(htmls[1])) THEN Raised("RenderingError", <<"glob", "render">>)
    ELSE Returned([pages |-> Render(HTMLFile(htmls[1]), csss)], <<"glob", "render">>)
  ELSE CopyAndWrite([i \in 1..Len(htmls) |-> HTMLFile(htmls[i])], <<"glob">>)

NoDir == [exists |-> FALSE, tree |-> {}]

\* TemporaryDirectoryExit that cleans up only when the block did not raise
TemporaryDirectoryExitLeaky(dir, raised) == IF raised THEN dir ELSE NoDir

\* TemporaryDirectory.__exit__: the directory and its contents are removed,
\* whether or not the block raised.
TemporaryDirectoryExit(dir, raised) == NoDir

\* ---------------------------------------------------------------- state
VARIABLES
  secret,        \* os.environ.get('X_API_KEY'), fixed for the process
  logger_ready,  \* setup_logging has run (before_first_request)
  pc,            \* where the worker is
  req,           \* the request being served
  events,        \* what has been done for this request, in order
  resp,          \* the response
  tmp,           \* the weasyprint-* temporary directory on disk
  result         \* zip2pdf: what the with-block has produced so far

vars == <<secret, logger_ready, pc, req, events, resp, tmp, result>>

NoResult == Returned(NoPdf, <<>>)

Init ==
  /\ secret \in Keys \cup {Unset}
  /\ logger_ready = FALSE
  /\ pc = "idle"
  /\ req = NoRequest
  /\ events = <<>>
  /\ resp = NoResponse
  /\ tmp = NoDir
  /\ result = NoResult

\* A request arrives and is dispatched: setup_logging runs before the first
\* one, then the view function bound to the route is called.
Receive ==
  /\ pc = "idle"
  /\ \E r \in Requests :
       /\ req' = r
       /\ pc' = IF Guarded(r.route) THEN "checkauth" ELSE ViewOf(r.route)
  /\ logger_ready' = TRUE
  /\ events' = <<>>
  /\ resp' = NoResponse
  /\ result' = NoResult
  /\ UNCHANGED <<secret, tmp>>

\* lines 36-38
index ==
  /\ pc = "index"
  /\ resp' = TextResponse("ok")
  /\ pc' = "done"
  /\ UNCHANGED <<secret, logger_ready, req, events, tmp, result>>

\* lines 58-73
home ==
  /\ pc = "home"
  /\ resp' = TextResponse("usage")
  /\ pc' = "done"
  /\ UNCHANGED <<secret, logger_ready, req, events, tmp, result>>

\* lines 20-24
checkauth ==
  /\ pc = "checkauth"
  /\ IF AuthPasses(req.api_key, secret)
       THEN /\ pc' = ViewOf(req.route)
            /\ events' = events \o <<"checkauth">>
            /\ resp' = resp
       ELSE /\ pc' = "done"
            /\ events' = events \o <<"checkauth">>
            /\ resp' = ErrorResponse("abort(401)")
  /\ UNCHANGED <<secret, logger_ready, req, tmp, result>>

\* A view that ran to its end or raised: lines 89-93, 104-108
Finish(out, name) ==
  IF out.exc = ""
    THEN /\ resp' = PdfResponse(out.pdf, name)
         /\ events' = events \o <<"log.info">> \o out.ev \o <<"make_response", "log.info">>
    ELSE /\ resp' = ErrorResponse(out.exc)
         /\ events' = events \o <<"log.info">> \o out.ev

\* lines 78-93
generate ==
  /\ pc = "generate"
  /\ Finish(GenerateBody(req), ArgsGet(req))
  /\ pc' = "done"
  /\ UNCHANGED <<secret, logger_ready, req, tmp, result>>

\* lines 98-108
multiple ==
  /\ pc = "multiple"
  /\ Finish(MultipleBody(req), ArgsGet(req))
  /\ pc' = "done"
  /\ UNCHANGED <<secret, logger_ready, req, tmp, result>>

\* lines 114-116: the log line, then the with statement creates the directory
zip2pdf ==
  /\ pc = "zip2pdf"
  /\ events' = events \o <<"log.info", "TemporaryDirectory">>
  /\ tmp' = [exists |-> TRUE, tree |-> {}]
  /\ pc' = "extract"
  /\ UNCHANGED <<secret, logger_ready, req, resp, result>>

\* lines 117-118: a body that is no archive fails when it is opened, an
\* archive with a damaged member fails after some members were written
zip2pdf_extract ==
  /\ pc = "extract"
  /\ IF req.body.kind # "zip"
       THEN /\ result' = Raised("BadZipFile", <<>>)
            /\ events' = events \o <<"ZipFile">>
            /\ tmp' = tmp
            /\ pc' = "exit"
       ELSE IF ~req.body.crc_ok
       THEN /\ result' = Raised("BadZipFile", <<>>)
            /\ events' = events \o <<"ZipFile", "extractall">>
            /\ \E part \in SUBSET req.body.tree : tmp' = [tmp EXCEPT !.tree = part]
            /\ pc' = "exit"
       ELSE /\ result' = result
            /\ events' = events \o <<"ZipFile", "extractall">>
            /\ tmp' = [tmp EXCEPT !.tree = req.body.tree]
            /\ pc' = "render"
  /\ UNCHANGED <<secret, logger_ready, req, resp>>

\* lines 119-130
zip2pdf_render ==
  /\ pc = "render"
  /\ \E htmls \in Listings(Glob(tmp.tree, "html")), csss \in Listings(Glob(tmp.tree, "css")) :
       LET out == Zip2pdfBody(htmls, csss)
       IN  /\ result' = out
           /\ events' = events \o out.ev
  /\ pc' = "exit"
  /\ UNCHANGED <<secret, logger_ready, req, resp, tmp>>

\* leaving the with block of line 116; an exception goes on to Flask
zip2pdf_exit ==
  /\ pc = "exit"
  /\ tmp' = TemporaryDirectoryExit(tmp, result.exc # "")
  /\ IF result.exc # ""
       THEN /\ resp' = ErrorResponse(result.exc)
            /\ events' = events \o (IF tmp'.exists THEN <<>> ELSE <<"cleanup">>)
            /\ pc' = "done"
       ELSE /\ resp' = resp
            /\ events' = events \o (IF tmp'.exists THEN <<>> ELSE <<"cleanup">>)
            /\ pc' = "respond"
  /\ UNCHANGED <<secret, logger_ready, req, result>>

\* lines 132-136
zip2pdf_respond ==
  /\ pc = "respond"
  /\ resp' = PdfResponse(result.pdf, ArgsGet(req))
  /\ events' = events \o <<"make_response", "log.info">>
  /\ pc' = "done"
  /\ UNCHANGED <<secret, logger_ready, req, tmp, result>>

\* line 140: the response is sent and the server waits for the next request
run ==
  /\ pc = "done"
  /\ pc' = "idle"
  /\ req' = NoRequest
  /\ events' = <<>>
  /\ resp' = NoResponse
  /\ result' = NoResult
  /\ UNCHANGED <<secret, logger_ready, tmp>>

Next ==
  \/ Receive
  \/ index
  \/ home
  \/ checkauth
  \/ generate
  \/ multiple
  \/ zip2pdf
  \/ zip2pdf_extract
  \/ zip2pdf_render
  \/ zip2pdf_exit
  \/ zip2pdf_respond
  \/ run

Spec == Init /\ [][Next]_vars

TypeOK ==
  /\ secret \in Keys \cup {Unset}
  /\ logger_ready \in BOOLEAN
  /\ pc \in {"idle", "checkauth", "index", "home", "generate", "multiple", "zip2pdf",
             "extract", "render", "exit", "respond", "done"}
  /\ resp.status \in {0, 200, 400, 401, 500}


\* ============================================================== claims
ProtectedRoutes == {"/pdf", "/multiple", "/zip2pdf"}

Done == pc = "done"

\* The guard has decided for the request being served.
Decided == req.route \in ProtectedRoutes /\ pc \notin {"idle", "checkauth"}

\* Something other than the guard has acted for the request.
Processed == \E i \in 1..Len(events) : events[i] # "checkauth"

InView == pc \in {"generate", "multiple", "zip2pdf", "extract", "render", "exit", "respond"}

LetThrough == InView \/ Processed

HeaderMatches == req.api_key # Absent /\ secret # Unset /\ req.api_key = secret

Position(e) == CHOOSE i \in 1..Len(events) : events[i] = e

Occurs(e) == \E i \in 1..Len(events) : events[i] = e

\* C1: on /pdf, /multiple and /zip2pdf the view body runs only if the
\* X_API_KEY header is present and equals the configured secret; every
\* other request is answered 401.
C1_RejectUnlessHeaderMatches ==
  Decided =>
    IF HeaderMatches
      THEN resp.status # 401
      ELSE ~LetThrough /\ (Done => resp.status = 401)

\* C2: as written, the guard lets a request through exactly when the header
\* is absent or equals the environment value, and aborts with 401 exactly
\* when the header is present and differs from it (environment value unset
\* included).
C2_GuardAsWritten ==
  Decided =>
    /\ LetThrough <=> (req.api_key = Absent \/ req.api_key = secret)
    /\ (Done /\ resp.status = 401 /\ ~Processed)
         <=> (req.api_key # Absent /\ req.api_key # secret)

C2_Witness ==
  /\ Decided /\ Done
  /\ req.api_key = Absent /\ secret = Unset
  /\ resp.status = 200

\* The files of an archive whose name ends in .html, wherever they lie.
HtmlFilesIn(tree) ==
  {f \in tree : ~IsDir(f) /\ EndsWith(Components(f)[Len(Components(f))], "html")}

\* A finished /zip2pdf request carrying the configured key and a sound archive.
ValidZipServed ==
  /\ Done /\ req.route = "/zip2pdf" /\ HeaderMatches
  /\ req.body.kind = "zip" /\ req.body.crc_ok

\* C3: an authorized POST /zip2pdf with a valid archive is answered 400 if
\* and only if the extracted tree holds no file matching *.html.
C3_400IffNoHtmlFile ==
  ValidZipServed => (resp.status = 400 <=> HtmlFilesIn(req.body.tree) = {})

C4_ListedFailure ==
  \/ req.route = "/pdf" /\ req.ctype = Absent
  \/ /\ req.route = "/pdf" /\ req.ctype = "application/json"
     /\ req.body.kind = "text"
     /\ \/ req.body.text.json.type = "none"
        \/ /\ req.body.text.json.type = "object"
           /\ (req.body.text.json.html = NoKey \/ ~req.body.text.json.hascss)
  \/ /\ req.route = "/multiple" /\ req.body.kind = "text"
     /\ \/ req.body.text.json.type = "none"
        \/ req.body.text.json.type = "array" /\ req.body.text.json.items = <<>>
  \/ req.route = "/zip2pdf" /\ (req.body.kind # "zip" \/ ~req.body.crc_ok)
  \/ resp.error = "RenderingError"

C5_Name == IF req.filename = Absent THEN "unnamed.pdf" ELSE req.filename

\* C5: every 200 response of /pdf, /multiple and /zip2pdf has Content-Type
\* application/pdf, Content-Disposition inline;filename=<name> with the
\* filename argument unchanged, and the written pages as body; /pdf renders
\* data['html'] with data['css'] exactly when Content-Type equals
\* application/json and the whole body as HTML without stylesheets otherwise.
C5_PdfResponse ==
  (Done /\ req.route \in ProtectedRoutes /\ resp.status = 200) =>
    /\ resp.ctype = "application/pdf"
    /\ resp.disp = <<"inline;filename=", C5_Name>>
    /\ Len(resp.pdf.pages) >= 1
    /\ req.route = "/pdf" =>
         LET pages == resp.pdf.pages
             data  == req.body.text.json
         IN  IF req.ctype = "application/json"
               THEN /\ Len(pages) = data.html
                    /\ \A i \in 1..Len(pages) :
                         /\ pages[i].src = Markup(data.html)
                         /\ pages[i].css = data.css
                         /\ pages[i].no = i
               ELSE /\ Len(pages) = req.body.text.pages
                    /\ \A i \in 1..Len(pages) :
                         /\ pages[i].src = req.body.text
                         /\ pages[i].css = <<>>
                         /\ pages[i].no = i

C5_Witness ==
  /\ Done /\ req.route = "/pdf" /\ resp.status = 200
  /\ req.ctype = "application/json; charset=utf-8"
  /\ req.filename = "b.pdf"
  /\ req.body.text.json.type = "object"
  /\ req.body.text.json.html = MaxPages
  /\ req.body.text.json.css = <<"c2", "c1">>

RECURSIVE C6_Sum(_, _)
C6_Sum(items, k) == IF k = 0 THEN 0 ELSE items[k] + C6_Sum(items, k - 1)

\* C6: for /multiple with an array of n >= 1 HTML strings the output holds,
\* for each string in array order, the pages of that string rendered on its
\* own; the page count is the sum of the documents' page counts.
C6_ConcatenatedInOrder ==
  (Done /\ req.route = "/multiple" /\ LetThrough /\ req.body.kind = "text"
     /\ req.body.text.json.type = "array") =>
    LET items == req.body.text.json.items
        pages == resp.pdf.pages
    IN  /\ (Len(items) >= 1 /\ \A k \in 1..Len(items) : items[k] >= 1) <=> resp.status = 200
        /\ resp.status = 200 =>
             /\ Len(pages) = C6_Sum(items, Len(items))
             /\ \A k \in 1..Len(items) : \A n \in 1..items[k] :
                  pages[C6_Sum(items, k - 1) + n] =
                    [src |-> Markup(items[k]), base |-> NoBase, no |-> n, css |-> <<>>]

C6_Witness ==
  /\ Done /\ req.route = "/multiple" /\ resp.status = 200
  /\ req.body.text.json.type = "array"
  /\ req.body.text.json.items = <<MaxPages, 1>>
  /\ Len(resp.pdf.pages) = MaxPages + 1

CssFilesIn(tree) ==
  {f \in tree : ~IsDir(f) /\ EndsWith(Components(f)[Len(Components(f))], "css")}

\* C7: a successful /zip2pdf renders every .html file of the archive; the
\* .css files are the stylesheets of every page if exactly one .html file is
\* present, and with two or more .html files no page has a stylesheet.
C7_AllHtmlRendered ==
  (ValidZipServed /\ resp.status = 200) =>
    LET H     == HtmlFilesIn(req.body.tree)
        C     == CssFilesIn(req.body.tree)
        pages == resp.pdf.pages
    IN  /\ \A f \in H : \E i \in 1..Len(pages) : pages[i].base = f
        /\ \A i \in 1..Len(pages) : pages[i].base \in H
        /\ Cardinality(H) = 1 =>
             \A i \in 1..Len(pages) :
                /\ Len(pages[i].css) = Cardinality(C)
                /\ \A c \in C : \E j \in 1..Len(pages[i].css) : pages[i].css[j] = c
        /\ Cardinality(H) >= 2 => \A i \in 1..Len(pages) : pages[i].css = <<>>

\* C8: GET /health is always answered 200 'ok' and GET / the usage page;
\* neither goes through the guard, whatever the X_API_KEY header and
\* whatever was served before.
C8_Unguarded ==
  req.route \in {"/health", "/"} =>
    /\ pc # "checkauth"
    /\ events = <<>>
    /\ Done =>
         /\ resp.status = 200
         /\ resp.text = (IF req.route = "/health" THEN "ok" ELSE "usage")

C8_Witness ==
  /\ Done /\ req.route = "/health"
  /\ req.api_key # Absent /\ req.api_key # secret
  /\ resp.status = 200 /\ resp.text = "ok"

\* C9: the temporary directory of a /zip2pdf request is gone once the
\* request has finished, on every exit path, it exists only while the
\* request is inside the with block, and a returned PDF was written before
\* the directory was removed.
C9_TempDirRemoved ==
  /\ tmp.exists => (req.route = "/zip2pdf" /\ pc \in {"extract", "render", "exit"})
  /\ (Done /\ req.route = "/zip2pdf" /\ Occurs("TemporaryDirectory")) =>
       /\ tmp = NoDir
       /\ Occurs("cleanup")
       /\ Position("TemporaryDirectory") < Position("cleanup")
       /\ resp.status = 200 => (Occurs("render") /\ Position("render") < Position("cleanup"))

C9_Witness ==
  /\ Done /\ req.route = "/zip2pdf"
  /\ Occurs("TemporaryDirectory")
  /\ resp.error = "RenderingError"
  /\ ~tmp.exists

\* C10: on the guarded routes the guard decides before anything else is
\* done for the request, and a request answered 401 has caused no parsing,
\* no temporary directory, no extraction, no rendering and no log line.
C10_AuthFirst ==
  req.route \in ProtectedRoutes =>
    /\ (InView \/ events # <<>>) => (events # <<>> /\ events[1] = "checkauth")
    /\ resp.status = 401 =>
         /\ events = <<"checkauth">>
         /\ tmp = NoDir
         /\ result = NoResult
         /\ resp.pdf = NoPdf

C10_Witness ==
  /\ Done /\ req.route = "/zip2pdf"
  /\ req.body.kind = "zip" /\ req.body.tree # {}
  /\ resp.status = 401

====
